---- MODULE Spec2Model ----
(***************************************************************************)
(* The error-capture demo page of javascript-errors: the five capture      *)
(* modes (none, window.onerror, try/catch, protected entry points,         *)
(* window.addEventListener("error")), the fault injectors run through      *)
(* invokeError, and the host pieces they touch (timer queue, promise jobs, *)
(* the default unhandled-error path and the #console element).            *)
(***************************************************************************)
EXTENDS Integers, Sequences, FiniteSets, TLC

\* ---------------------------------------------------------------- bounds
\* faults injected in one run
MaxFaults == 1
\* arguments a direct call passes after the callback and the delay
MaxArgs == 2
\* the count of consecutive identical activations stops growing here
MaxStreak == 2
\* requests the pages send to their workers in one run
MaxRequests == 3
\* reports the #console element holds in the runs that call the sink directly
MaxConsole == 2

\* ---------------------------------------------------------------- values
Modes == {"NONE", "GLOBAL_HANDLER", "TRY_CATCH", "PROTECTED_ENTRY_POINTS", "EVENT_LISTENER"}

\* the five mode buttons whose className the activators set
Elements == {"noerrorhandler", "windowonerror", "trycatch", "protectedentrypoint",
             "windowaddeventlistener"}

\* kinds of value a fault injector throws
Thrown == {"Error", "string", "null", "undefined"}

\* e.stack as the catch blocks read it: a property read on null or undefined
\* raises a TypeError; a string has no stack property; an Error carries one
HasProperties(e) == e \notin {"null", "undefined"}

\* variant: every thrown value carries a stack
StackOf_Always(e) == "stack"

StackOf(e) == IF e = "string" THEN "undefined" ELSE "stack"

\* Texts are sequences of words.  The message of the Error throwError makes, and
\* the one of the Error the worker script makes
MessageOf(e) ==
  CASE e = "Error" -> <<"Some", "error", "message">>
    [] e = "WorkerError" -> <<"Error", "from", "worker">>
    [] OTHER -> <<>>

\* the marker window.onerror looks for in msg
Marker == <<"from", "worker">>

\* msg.indexOf(needle): the first position needle occurs at, from 0, or -1
indexOf(msg, needle) ==
  LET at == {i \in 1..(Len(msg) - Len(needle) + 1) :
               SubSeq(msg, i, i + Len(needle) - 1) = needle}
  IN IF at = {} THEN -1 ELSE (CHOOSE i \in at : \A j \in at : i <= j) - 1

\* variant: the host hands over the sanitized message of a cross-origin script
hostMessage_Sanitized(e) == <<"Script", "error.">>

\* the message the host builds for an uncaught value: it holds the message of a
\* thrown Error, the text of a thrown string, the name of anything else
hostMessage(e) ==
  CASE e \in {"Error", "WorkerError"} -> <<"Uncaught", "Error:">> \o MessageOf(e)
    [] e = "string" -> <<"Uncaught", "You", "shouldn't", "throw", "strings.">>
    [] OTHER -> <<"Uncaught", e>>

\* the fault injectors: what the function does and what it throws
\*   sync          throw v                               (throwError, throwString)
\*   timer         window.setTimeout(function(){throw v}, 10)   (throwAsyncError)
\*   promise       resolved.then(f).then(function(){throw v})   (errorFromPromise)
\*   rejected      Promise.reject(v).then(f)             (errorFromRejectedPromise)
\*   rejectHandler Promise.reject(x).then(undefined, function(){throw v})
\* (undefined behaves as null does wherever a thrown value is handled, so the
\* asynchronous injectors draw from fewer values than the synchronous one)
Injectors ==
  [kind : {"sync"}, thrown : Thrown]
    \cup [kind : {"timer"}, thrown : {"Error", "string", "null"}]
    \cup [kind : {"promise", "rejectHandler"}, thrown : {"Error", "null"}]
    \cup [kind : {"rejected"}, thrown : {"Error"}]

throwError == [kind |-> "sync", thrown |-> "Error"]
throwString == [kind |-> "sync", thrown |-> "string"]
throwAsyncError == [kind |-> "timer", thrown |-> "Error"]
errorFromPromise == [kind |-> "promise", thrown |-> "Error"]
errorFromRejectedPromise == [kind |-> "rejected", thrown |-> "Error"]

\* ---------------------------------------------------------------- state
VARIABLES
  page,        \* the page's globals: className of the mode buttons, window.onerror,
               \* _useTryCatch, _oldSetTimeout, _oldPromiseThen, window.setTimeout,
               \* Promise.prototype.then, the "error" listeners of window
  console,     \* textContent of the #console element: the reports it shows
  timers,      \* callbacks handed to the native scheduler, not fired yet
  microtasks,  \* promise reaction jobs not run yet
  faults,      \* one record per injected fault: what was observed of it
  latest,      \* the latest call among the activators and reset ("none" before any)
  streak,      \* how many times in a row that call has been made
  probe,       \* the latest direct call of a wrapped facility or of a protected
               \* callback: what it was given and what came out of it
  relay        \* the workers of the page: the host they run on, _worker,
               \* _sharedWorker, the shared script's _port, the events in flight

vars == <<page, console, timers, microtasks, faults, latest, streak, probe, relay>>

\* ------------------------------------------------------- the mode controller
\* variant: never puts the saved scheduler and registrar back
resetErrorHandlers_KeepsWrappers(p) ==
  [p EXCEPT
     !.className = [e \in Elements |-> ""],
     !.onerror = "undefined",
     !._useTryCatch = FALSE,
     !.listeners = SelectSeq(@, LAMBDA l : l # "errorEventListener")]

\* variant: forgets removeEventListener
resetErrorHandlers_KeepsListener(p) ==
  [p EXCEPT
     !.className = [e \in Elements |-> ""],
     !.onerror = "undefined",
     !._useTryCatch = FALSE,
     !.setTimeout = IF p._oldSetTimeout # "undefined" THEN p._oldSetTimeout ELSE @,
     !.then = IF p._oldPromiseThen # "undefined" THEN p._oldPromiseThen ELSE @]

\* variant: forgets the saved scheduler and registrar once it has put them back
resetErrorHandlers_ClearsSaved(p) ==
  [p EXCEPT
     !.className = [e \in Elements |-> ""],
     !.onerror = "undefined",
     !._useTryCatch = FALSE,
     !.setTimeout = IF p._oldSetTimeout # "undefined" THEN p._oldSetTimeout ELSE @,
     !.then = IF p._oldPromiseThen # "undefined" THEN p._oldPromiseThen ELSE @,
     !._oldSetTimeout = "undefined",
     !._oldPromiseThen = "undefined",
     !.listeners = SelectSeq(@, LAMBDA l : l # "errorEventListener")]

\* resetErrorHandlers(): clears the five mode indicators, window.onerror and the
\* try/catch flag, puts the saved scheduler and registrar back if there are saved
\* ones, and removes errorEventListener from window's "error" listeners
resetErrorHandlers(p) ==
  [p EXCEPT
     !.className = [e \in Elements |-> ""],
     !.onerror = "undefined",
     !._useTryCatch = FALSE,
     !.setTimeout = IF p._oldSetTimeout # "undefined" THEN p._oldSetTimeout ELSE @,
     !.then = IF p._oldPromiseThen # "undefined" THEN p._oldPromiseThen ELSE @,
     !.listeners = SelectSeq(@, LAMBDA l : l # "errorEventListener")]

useNoErrorHandler(p) ==
  [resetErrorHandlers(p) EXCEPT !.className["noerrorhandler"] = "active"]

useWindowOnError(p) ==
  [resetErrorHandlers(p) EXCEPT
     !.className["windowonerror"] = "active",
     !.onerror = "handler"]

\* variant: sets the flag without resetting the previous mode first
useTryCatch_NoReset(p) ==
  [p EXCEPT
     !.className["trycatch"] = "active",
     !._useTryCatch = TRUE]

useTryCatch(p) ==
  [resetErrorHandlers(p) EXCEPT
     !.className["trycatch"] = "active",
     !._useTryCatch = TRUE]

\* variant: saves and wraps without resetting first, so a second activation
\* saves the first activation's wrappers as the originals
useProtectedEntryPoints_NoReset(p) ==
  [p EXCEPT
     !.className = [e \in Elements |-> IF e = "protectedentrypoint" THEN "active" ELSE ""],
     !.onerror = "undefined",
     !._useTryCatch = FALSE,
     !.listeners = SelectSeq(@, LAMBDA l : l # "errorEventListener"),
     !._oldSetTimeout = p.setTimeout,
     !.setTimeout = "protectedTimeout",
     !._oldPromiseThen = p.then,
     !.then = "protectedThen"]

\* variant: protected entry points also turn the try/catch of invokeError on
useProtectedEntryPoints_WithTryCatch(p) ==
  LET q == resetErrorHandlers(p) IN
  [q EXCEPT
     !.className["protectedentrypoint"] = "active",
     !._useTryCatch = TRUE,
     !._oldSetTimeout = q.setTimeout,
     !.setTimeout = "protectedTimeout",
     !._oldPromiseThen = q.then,
     !.then = "protectedThen"]

\* _oldSetTimeout = window.setTimeout and _oldPromiseThen = Promise.prototype.then
\* are read after the reset, then both facilities are replaced by the wrappers
useProtectedEntryPoints(p) ==
  LET q == resetErrorHandlers(p) IN
  [q EXCEPT
     !.className["protectedentrypoint"] = "active",
     !._oldSetTimeout = q.setTimeout,
     !.setTimeout = "protectedTimeout",
     !._oldPromiseThen = q.then,
     !.then = "protectedThen"]

\* addEventListener ignores a listener that is already in the list
addEventListener(ls, l) ==
  IF \E i \in 1..Len(ls) : ls[i] = l THEN ls ELSE Append(ls, l)

\* variant: registers one more listener at each activation, without a reset
useWindowAddEventListener_Accumulates(p) ==
  [p EXCEPT
     !.className = [e \in Elements |-> IF e = "windowaddeventlistener" THEN "active" ELSE ""],
     !.listeners = Append(@, "errorEventListener")]

useWindowAddEventListener(p) ==
  LET q == resetErrorHandlers(p) IN
  [q EXCEPT
     !.className["windowaddeventlistener"] = "active",
     !.listeners = addEventListener(q.listeners, "errorEventListener")]

\* activate(mode) of the specification: the activator of that mode
activate(p, m) ==
  CASE m = "NONE" -> useNoErrorHandler(p)
    [] m = "GLOBAL_HANDLER" -> useWindowOnError(p)
    [] m = "TRY_CATCH" -> useTryCatch(p)
    [] m = "PROTECTED_ENTRY_POINTS" -> useProtectedEntryPoints(p)
    [] m = "EVENT_LISTENER" -> useWindowAddEventListener(p)

\* the mode the indicators show; NONE when no button is marked active
ElementOf(m) ==
  CASE m = "NONE" -> "noerrorhandler"
    [] m = "GLOBAL_HANDLER" -> "windowonerror"
    [] m = "TRY_CATCH" -> "trycatch"
    [] m = "PROTECTED_ENTRY_POINTS" -> "protectedentrypoint"
    [] m = "EVENT_LISTENER" -> "windowaddeventlistener"

ActiveModes(p) == {m \in Modes : p.className[ElementOf(m)] = "active"}

currentMode(p) ==
  IF ActiveModes(p) \subseteq {"NONE"} THEN "NONE" ELSE CHOOSE m \in ActiveModes(p) : m # "NONE"

\* ------------------------------------------------------------- the sink
\* A run context r carries what a handler can change besides the page globals:
\* [console, faults, timers, microtasks].  A report is the text a handler builds:
\* who built it, the fault it is about, the thrown value and the stack it shows.

\* The console's text is the sequence of the reports written to it; '' is <<>>.

\* variant: the flag is ignored and the content always replaced
log_AlwaysReplaces(r, content, append) == [r EXCEPT !.console = content]

\* log(content, append): replaces the console's content, or appends to it
log(r, content, append) ==
  [r EXCEPT !.console = IF append THEN @ \o content ELSE content]

\* a report handed to log, counted for the fault it is about (when that fault
\* has a record)
report(r, rec, append) ==
  LET s == log(r, <<rec>>, append) IN
  IF rec.fault \in DOMAIN s.faults
    THEN [s EXCEPT !.faults[rec.fault].reports = @ + 1]
    ELSE s

\* variant: an empty catch block, which swallows the error
catchBlock_Swallows(r, by, f, e) == [r |-> r, thrown |-> "none"]

\* the catch block shared by catchError and protectedFn:
\*   log("Error object: " + e + "\nStack Trace: " + e.stack)
\* reading e.stack of null or undefined raises a TypeError before log is called
catchBlock(r, by, f, e) ==
  IF ~HasProperties(e)
    THEN [r |-> r, thrown |-> "TypeError"]
    ELSE [r |-> report(r, [by |-> by, fault |-> f, object |-> e, stack |-> StackOf(e)], FALSE),
          thrown |-> "none"]

\* ------------------------------------------------------------- callbacks
\* a callback value: what its body does, and whether protectEntryPoint wrapped it
Absent == [body |-> "absent", thrown |-> "none", protected |-> FALSE]
Returns == [body |-> "returns", thrown |-> "none", protected |-> FALSE]
Throws(v) == [body |-> "throws", thrown |-> v, protected |-> FALSE]

\* variant: hands the callback back without protectedFn around it
protectEntryPoint_Unwrapped(fn) == fn

\* variant: no test for an absent fn, protectedFn is built around undefined too
protectEntryPoint_WrapsAbsent(fn) == [fn EXCEPT !.protected = TRUE]

\* protectEntryPoint(fn): undefined for an absent fn, else protectedFn around fn
protectEntryPoint(fn) ==
  IF fn.body = "absent" THEN fn ELSE [fn EXCEPT !.protected = TRUE]

\* calling a callback: the plain body, or protectedFn's try { oldFn } catch { log };
\* applying a callback that is not there raises a TypeError
callFn(r, f, fn) ==
  LET e == CASE fn.body = "throws" -> fn.thrown
             [] fn.body = "absent" -> "TypeError"
             [] OTHER -> "none"
  IN
  IF fn.protected /\ e # "none"
    THEN catchBlock(r, "protectedFn", f, e)
    ELSE [r |-> r, thrown |-> e]

\* protectedTimeout(fn, time): the arguments it hands to _oldSetTimeout.  It
\* declares fn and time and passes on those two; further arguments of the call
\* are not passed on
protectedTimeout(fn, time, extra) ==
  [fn |-> protectEntryPoint(fn), time |-> time, extra |-> <<>>]

\* variant: a call without a rejection handler gets one that rethrows the reason
protectedThen_RethrowingHandler(this, callback, errorHandler) ==
  [this |-> this,
   onFulfilled |-> protectEntryPoint(callback),
   onRejected |-> protectEntryPoint(IF errorHandler = Absent THEN Throws("Error")
                                                            ELSE errorHandler)]

\* protectedThen(callback, errorHandler): the receiver and the arguments it
\* hands to _oldPromiseThen
protectedThen(this, callback, errorHandler) ==
  [this |-> this,
   onFulfilled |-> protectEntryPoint(callback),
   onRejected |-> protectEntryPoint(errorHandler)]

\* variant: the scheduler runs the callback before it returns
windowSetTimeout_Synchronous(p, r, f, fn) == callFn(r, f, fn)

\* window.setTimeout(fn, 10) as the page resolves it at the time of the call.
\* protectedTimeout reads the global _oldSetTimeout when it is called: if that is
\* a wrapper too, the call re-enters protectedTimeout without end (RangeError)
windowSetTimeout(p, r, f, fn) ==
  CASE p.setTimeout = "native" ->
         [r |-> [r EXCEPT !.timers = Append(@, [fault |-> f, fn |-> fn])], thrown |-> "none"]
    [] p.setTimeout = "protectedTimeout" /\ p._oldSetTimeout = "native" ->
         [r |-> [r EXCEPT !.timers = Append(@, [fault |-> f, fn |-> protectedTimeout(fn, 10, <<>>).fn])],
          thrown |-> "none"]
    [] p.setTimeout = "protectedTimeout" /\ p._oldSetTimeout = "protectedTimeout" ->
         [r |-> r, thrown |-> "RangeError"]
    [] OTHER -> [r |-> r, thrown |-> "TypeError"]

\* promise.then(callback, errorHandler) as the page resolves it at the time of the
\* call: the link of the chain it registers, or the error the call raises
promiseThen(p, callback, errorHandler) ==
  CASE p.then = "native" ->
         [link |-> [onFulfilled |-> callback, onRejected |-> errorHandler], thrown |-> "none"]
    [] p.then = "protectedThen" /\ p._oldPromiseThen = "native" ->
         [link |-> [onFulfilled |-> protectedThen("promise", callback, errorHandler).onFulfilled,
                    onRejected |-> protectedThen("promise", callback, errorHandler).onRejected],
          thrown |-> "none"]
    [] p.then = "protectedThen" /\ p._oldPromiseThen = "protectedThen" ->
         [link |-> [onFulfilled |-> Absent, onRejected |-> Absent], thrown |-> "RangeError"]
    [] OTHER ->
         [link |-> [onFulfilled |-> Absent, onRejected |-> Absent], thrown |-> "TypeError"]

\* ------------------------------------------------------ the fault injectors
\* the promise job queued for a settled promise with a chain of then-links
Job(f, state, reason, links) ==
  [fault |-> f, state |-> state, reason |-> reason, links |-> links]

\* fn(): what running the injector does before it returns or throws
runInjector(p, r, f, inj) ==
  CASE inj.kind = "sync" -> [r |-> r, thrown |-> inj.thrown]
    [] inj.kind = "timer" -> windowSetTimeout(p, r, f, Throws(inj.thrown))
    [] inj.kind = "promise" ->
         LET t1 == promiseThen(p, Returns, Absent)
             t2 == promiseThen(p, Throws(inj.thrown), Absent)
         IN IF t1.thrown # "none"
              THEN [r |-> r, thrown |-> t1.thrown]
              ELSE [r |-> [r EXCEPT !.microtasks =
                             Append(@, Job(f, "fulfilled", "none", <<t1.link, t2.link>>))],
                    thrown |-> "none"]
    [] inj.kind = "rejected" ->
         LET t1 == promiseThen(p, Returns, Absent)
         IN IF t1.thrown # "none"
              THEN [r |-> r, thrown |-> t1.thrown]
              ELSE [r |-> [r EXCEPT !.microtasks =
                             Append(@, Job(f, "rejected", inj.thrown, <<t1.link>>))],
                    thrown |-> "none"]
    [] inj.kind = "rejectHandler" ->
         LET t1 == promiseThen(p, Absent, Throws(inj.thrown))
         IN IF t1.thrown # "none"
              THEN [r |-> r, thrown |-> t1.thrown]
              ELSE [r |-> [r EXCEPT !.microtasks =
                             Append(@, Job(f, "rejected", "Error", <<t1.link>>))],
                    thrown |-> "none"]

\* catchError(fn): try { fn() } catch (e) { log(...) }
catchError(p, r, f, inj) ==
  LET out == runInjector(p, r, f, inj) IN
  IF out.thrown = "none" THEN out ELSE catchBlock(out.r, "catchError", f, out.thrown)

\* variant: ignores the flag and always goes through catchError
invokeError_AlwaysCatches(p, r, f, inj) == catchError(p, r, f, inj)

\* invokeError(fn): catchError(fn) when _useTryCatch is set, else fn()
invokeError(p, r, f, inj) ==
  IF p._useTryCatch THEN catchError(p, r, f, inj) ELSE runInjector(p, r, f, inj)

\* ------------------------------------------------------------- the host
\* variant: the handler replaces the content whatever the message is
windowOnError_AlwaysReplaces(r, f, msg, e) ==
  report(r, [by |-> "window.onerror", fault |-> f, object |-> e, msg |-> msg,
             stack |-> IF HasProperties(e) THEN StackOf(e) ELSE "false"], FALSE)

\* the handler useWindowOnError installs: appends when the message carries the
\* worker marker, replaces otherwise; (!!error && error.stack) never raises
windowOnError(r, f, msg, e) ==
  LET content == [by |-> "window.onerror", fault |-> f, object |-> e, msg |-> msg,
                  stack |-> IF HasProperties(e) THEN StackOf(e) ELSE "false"]
  IN IF indexOf(msg, Marker) # -1
       THEN report(r, content, TRUE)
       ELSE report(r, content, FALSE)

\* errorEventListener(e): log(content)
errorEventListener(r, f, e) ==
  report(r, [by |-> "errorEventListener", fault |-> f, object |-> e,
          stack |-> IF HasProperties(e) THEN StackOf(e) ELSE "false"], FALSE)

RECURSIVE dispatchListeners(_, _, _, _)
dispatchListeners(ls, r, f, e) ==
  IF ls = <<>> THEN r
  ELSE dispatchListeners(Tail(ls), errorEventListener(r, f, e), f, e)

\* an error that left the running task: the host reports it on its default path
\* (the developer console) and fires an error event at window, which runs
\* window.onerror and the registered "error" listeners; none of them cancels it
hostReportError(p, r, f, e) ==
  LET r1 == [r EXCEPT !.faults[f].host = @ + 1]
      r2 == IF p.onerror = "handler" THEN windowOnError(r1, f, hostMessage(e), e) ELSE r1
  IN dispatchListeners(p.listeners, r2, f, e)

\* a promise left rejected with no handler: the host's unhandled-rejection path,
\* which fires no error event
hostUnhandledRejection(r, f) ==
  [r EXCEPT !.faults[f].host = @ + 1]

\* the task or job ends with fault f finished: the mode it finished under
finish(p, r, f) ==
  [r EXCEPT !.faults[f].done = TRUE, !.faults[f].doneMode = currentMode(p)]

\* a task ends: an error that escaped it goes to the host
endTask(p, out, f) ==
  IF out.thrown = "none" THEN out.r ELSE hostReportError(p, out.r, f, out.thrown)

\* one promise job: runs the handler the link has for the settled state (an
\* absent handler passes the state on), settles the derived promise with the
\* outcome and queues the next link; a chain that ends rejected is unhandled
runJob(p, r, job) ==
  LET f == job.fault
      link == Head(job.links)
      fn == IF job.state = "fulfilled" THEN link.onFulfilled ELSE link.onRejected
      out == IF fn.body = "absent" /\ ~fn.protected
               THEN [r |-> r, thrown |-> job.reason]
               ELSE callFn(r, f, fn)
      rest == Tail(job.links)
      state == IF out.thrown = "none" THEN "fulfilled" ELSE "rejected"
  IN CASE rest # <<>> ->
            [out.r EXCEPT !.microtasks = Append(@, Job(f, state, out.thrown, rest))]
       [] rest = <<>> /\ state = "rejected" -> finish(p, hostUnhandledRejection(out.r, f), f)
       [] OTHER -> finish(p, out.r, f)

\* ------------------------------------------------------------- actions
Ctx == [console |-> console, faults |-> faults, timers |-> timers, microtasks |-> microtasks]

Commit(r) ==
  /\ console' = r.console
  /\ faults' = r.faults
  /\ timers' = r.timers
  /\ microtasks' = r.microtasks

\* the record opened for a fault: the mode it is injected under, and how many
\* protected-entry-point activations in a row came right before it
NewFault(inj) ==
  [inj |-> inj, mode |-> currentMode(page), wrapped |-> FALSE, escaped |-> FALSE,
   reports |-> 0, host |-> 0, done |-> FALSE, doneMode |-> "NONE",
   after |-> IF latest = "PROTECTED_ENTRY_POINTS" THEN streak ELSE 0]

NoProbe == [op |-> "none"]

\* no worker created yet, on the given host.  shown counts the worker messages
\* handleWorkerMessage has appended; made counts what this page has done so far:
\* new Worker(), new SharedWorker(), the times it attached its handlers to
\* each, and port.start()
NoRelay(host) ==
  [host |-> host, _worker |-> FALSE, _sharedWorker |-> {}, _port |-> "undefined",
   toWorker |-> <<>>, toShared |-> <<>>, toPage |-> <<>>, requests |-> 0,
   served |-> [from |-> "none"],
   shown |-> 0,
   made |-> [Worker |-> 0, workerHandlers |-> 0,
             SharedWorker |-> 0, sharedHandlers |-> 0, started |-> 0]]

\* a task starts only when the previous one has drained its promise jobs
Idle == microtasks = <<>>

PageInit ==
  /\ page = [className |-> [e \in Elements |-> ""],
             onerror |-> "undefined",
             _useTryCatch |-> FALSE,
             _oldSetTimeout |-> "undefined",
             _oldPromiseThen |-> "undefined",
             setTimeout |-> "native",
             then |-> "native",
             listeners |-> <<>>]
  /\ console = <<>>
  /\ timers = <<>>
  /\ microtasks = <<>>
  /\ faults = <<>>
  /\ latest = "none"
  /\ streak = 0
  /\ probe = NoProbe

Init == PageInit /\ relay = NoRelay("chrome")

Switch(m, q) ==
  /\ Idle
  /\ page' = q
  /\ latest' = m
  /\ streak' = IF latest # m THEN 1 ELSE IF streak < MaxStreak THEN streak + 1 ELSE streak
  /\ UNCHANGED <<console, timers, microtasks, faults, probe, relay>>

ResetErrorHandlers == Switch("reset", resetErrorHandlers(page))
UseNoErrorHandler == Switch("NONE", useNoErrorHandler(page))
UseWindowOnError == Switch("GLOBAL_HANDLER", useWindowOnError(page))
UseTryCatch == Switch("TRY_CATCH", useTryCatch(page))
UseProtectedEntryPoints == Switch("PROTECTED_ENTRY_POINTS", useProtectedEntryPoints(page))
UseWindowAddEventListener == Switch("EVENT_LISTENER", useWindowAddEventListener(page))

\* a button's onclick: invokeError(fn); what escapes it is the host's to report
InvokeError(inj) ==
  /\ Idle
  /\ Len(faults) < MaxFaults
  /\ LET f == Len(faults) + 1
         r0 == [Ctx EXCEPT !.faults = Append(@, NewFault(inj))]
         out == invokeError(page, r0, f, inj)
         r1 == [out.r EXCEPT !.faults[f].escaped = (out.thrown # "none"),
                             !.faults[f].wrapped =
                                (inj.kind = "timer" /\ page.setTimeout # "native")
                                \/ (inj.kind \in {"promise", "rejected", "rejectHandler"}
                                    /\ page.then # "native")]
         r2 == endTask(page, [r |-> r1, thrown |-> out.thrown], f)
         over == inj.kind = "sync" \/ out.thrown # "none"
                   \/ (r2.timers = timers /\ r2.microtasks = microtasks)
     IN Commit(IF over THEN finish(page, r2, f) ELSE r2)
  /\ UNCHANGED <<page, latest, streak, probe, relay>>

\* variant: the host drops the oldest pending timer without calling its callback
TimerFire_DropsCallback ==
  /\ Idle
  /\ timers # <<>>
  /\ timers' = Tail(timers)
  /\ UNCHANGED <<page, console, microtasks, faults, latest, streak, probe, relay>>

\* variant: whether the callback runs protected is decided when the timer fires
TimerFire_WrapsAtFiring ==
  /\ Idle
  /\ timers # <<>>
  /\ LET t == Head(timers)
         r0 == [Ctx EXCEPT !.timers = Tail(@)]
         fn == IF page.setTimeout = "protectedTimeout"
                 THEN protectEntryPoint([t.fn EXCEPT !.protected = FALSE])
                 ELSE [t.fn EXCEPT !.protected = FALSE]
         out == callFn(r0, t.fault, fn)
     IN Commit(finish(page, endTask(page, out, t.fault), t.fault))
  /\ UNCHANGED <<page, latest, streak, probe, relay>>

\* the host fires the oldest pending timer
TimerFire ==
  /\ Idle
  /\ timers # <<>>
  /\ LET t == Head(timers)
         r0 == [Ctx EXCEPT !.timers = Tail(@)]
         out == callFn(r0, t.fault, t.fn)
     IN Commit(finish(page, endTask(page, out, t.fault), t.fault))
  /\ UNCHANGED <<page, latest, streak, probe, relay>>

\* the host runs the oldest promise job
RunMicrotask ==
  /\ microtasks # <<>>
  /\ LET job == Head(microtasks)
         r0 == [Ctx EXCEPT !.microtasks = Tail(@)]
     IN Commit(runJob(page, r0, job))
  /\ UNCHANGED <<page, latest, streak, probe, relay>>

Next ==
  \/ ResetErrorHandlers
  \/ UseNoErrorHandler
  \/ UseWindowOnError
  \/ UseTryCatch
  \/ UseProtectedEntryPoints
  \/ UseWindowAddEventListener
  \/ \E inj \in Injectors : InvokeError(inj)
  \/ TimerFire
  \/ RunMicrotask

Spec == Init /\ [][Next]_vars

\* ------------------------------------------------- scheduled faults, fairly
\* throwAsyncError and the mode buttons only; the host fires a timer that is due

TimerNext ==
  \/ ResetErrorHandlers
  \/ UseNoErrorHandler
  \/ UseWindowOnError
  \/ UseTryCatch
  \/ UseProtectedEntryPoints
  \/ UseWindowAddEventListener
  \/ InvokeError(throwAsyncError)
  \/ TimerFire

TimerSpec == Init /\ [][TimerNext]_vars /\ WF_vars(TimerFire)

\* ------------------------------------------------- direct calls of the wrappers
\* Calls made on window.setTimeout, on promise.then and on a function that
\* protectEntryPoint returned, with the arguments drawn from small sets.

RECURSIVE ArgLists(_)
ArgLists(n) ==
  IF n = 0 THEN {<<>>}
  ELSE ArgLists(n - 1) \cup {Append(s, a) : s \in ArgLists(n - 1), a \in {"a", "b"}}

Delays == {0, 10}
Receivers == {"p1", "p2"}
Callbacks == {Returns, Throws("Error"), Throws("null")}

\* what the original scheduler receives from window.setTimeout(fn, time, ...extra)
schedulerReceives(p, fn, time, extra) ==
  IF p.setTimeout = "protectedTimeout"
    THEN protectedTimeout(fn, time, extra)
    ELSE [fn |-> fn, time |-> time, extra |-> extra]

\* what the original registrar receives from this.then(callback, errorHandler)
registrarReceives(p, this, callback, errorHandler) ==
  IF p.then = "protectedThen"
    THEN protectedThen(this, callback, errorHandler)
    ELSE [this |-> this, onFulfilled |-> callback, onRejected |-> errorHandler]

\* protectedFn: oldFn.apply(this, arguments), once, inside the try; the value
\* it returns is oldFn's, or undefined after the catch block
protectedFn(r, fn, this, args) ==
  LET out == callFn(r, 0, protectEntryPoint(fn)) IN
  [r |-> out.r,
   thrown |-> out.thrown,
   calls |-> <<[this |-> this, args |-> args]>>,
   result |-> IF fn.body = "returns" THEN "result" ELSE "undefined"]

CallSetTimeout(fn, time, extra) ==
  /\ Idle
  /\ probe' = [op |-> "setTimeout",
               wrapped |-> page.setTimeout = "protectedTimeout",
               given |-> [fn |-> fn, time |-> time, extra |-> extra],
               received |-> schedulerReceives(page, fn, time, extra)]
  /\ UNCHANGED <<page, console, timers, microtasks, faults, latest, streak, relay>>

CallThen(this, callback, errorHandler) ==
  /\ Idle
  /\ probe' = [op |-> "then",
               wrapped |-> page.then = "protectedThen",
               given |-> [this |-> this, callback |-> callback, errorHandler |-> errorHandler],
               received |-> registrarReceives(page, this, callback, errorHandler)]
  /\ UNCHANGED <<page, console, timers, microtasks, faults, latest, streak, relay>>

\* a function protectEntryPoint(fn) returned is called with a receiver and arguments
CallProtectedFn(fn, this, args) ==
  /\ Idle
  /\ LET out == protectedFn(Ctx, fn, this, args)
         fresh == protectedFn([Ctx EXCEPT !.console = <<>>], fn, this, args)
     IN /\ console' = out.r.console
        /\ probe' = [op |-> "protectedFn",
                     given |-> [fn |-> fn, this |-> this, args |-> args],
                     calls |-> out.calls,
                     result |-> out.result,
                     thrown |-> out.thrown,
                     written |-> fresh.r.console]
  /\ UNCHANGED <<page, timers, microtasks, faults, latest, streak, relay>>

CallNext ==
  \/ ResetErrorHandlers
  \/ UseNoErrorHandler
  \/ UseWindowOnError
  \/ UseTryCatch
  \/ UseProtectedEntryPoints
  \/ UseWindowAddEventListener
  \/ \E fn \in Callbacks, time \in Delays, extra \in ArgLists(MaxArgs) :
       CallSetTimeout(fn, time, extra)
  \/ \E this \in Receivers, cb \in Callbacks \cup {Absent}, eh \in Callbacks \cup {Absent} :
       CallThen(this, cb, eh)
  \/ \E fn \in {Returns} \cup {Throws(v) : v \in Thrown}, this \in Receivers,
        args \in ArgLists(MaxArgs) :
       CallProtectedFn(fn, this, args)

CallSpec == Init /\ [][CallNext]_vars

\* ------------------------------------------------------------- the workers
\* The page ("A") and a second tab running the same page ("B"); the dedicated
\* worker of A, and the shared worker both tabs connect to.

Pages == {"A", "B"}

\* the hosts the handbook tells apart: Chrome; Firefox; Safari and IE11, which
\* have no SharedWorker
Hosts == {"chrome", "firefox", "safari"}

\* 'SharedWorker' in window
SharedWorkerSupported(host) == host \in {"chrome", "firefox"}

\* hosts that also call the parent page's window.onerror for a worker's error
ParentOnError(host) == host \in {"firefox", "safari"}

\* hosts that fire the error event at the parent's SharedWorker object
SharedErrorEvent(host) == host = "firefox"

\* e.message + "\n" + e.stack of the Error the worker script throws
Reply == [by |-> "worker.onmessage", fault |-> 0,
          text |-> MessageOf("WorkerError") \o <<"stack">>]

\* the content self.onerror builds from msg
Diagnostic(msg) == [by |-> "self.onerror", fault |-> 0, text |-> msg]

\* variant: the message handler never takes the try/catch branch
workerOnMessage_NeverCatches(event) == [posts |-> <<>>, thrown |-> "WorkerError"]

\* self.onmessage(event): what the handler posts and what it lets escape
workerOnMessage(event) ==
  IF event.useTryCatch
    THEN [posts |-> <<Reply>>, thrown |-> "none"]
    ELSE [posts |-> <<>>, thrown |-> "WorkerError"]

\* variant: self.onerror posts nothing
workerOnError_Silent(msg) == <<>>

\* self.onerror(msg, ...): what it posts
workerOnError(msg) == <<Diagnostic(msg)>>

\* var myself = _port || self
myself(_port, self) == IF _port # "undefined" THEN _port ELSE self

\* one request served by the worker script: the handler runs, an error that
\* escapes it goes to self.onerror; everything posted goes to myself.  The
\* events that result, and the record of the request: who sent it, its flag, how
\* what the handler itself posted, whether self.onerror ran, who got the posts
serve(event, _port, self) ==
  LET out == workerOnMessage(event)
      fromError == IF out.thrown = "none" THEN <<>> ELSE workerOnError(hostMessage(out.thrown))
      posts == out.posts \o fromError
  IN [events |-> [i \in 1..Len(posts) |->
                    [type |-> "message", to |-> myself(_port, self), data |-> posts[i]]],
      thrown |-> out.thrown,
      served |-> [from |-> event.from, useTryCatch |-> event.useTryCatch,
                  posted |-> out.posts,
                  onerror |-> IF out.thrown = "none" THEN 0 ELSE 1,
                  to |-> myself(_port, self)]]

\* the error event the host fires at the worker object of a parent page
errorEvent(to, e) ==
  [type |-> "error", to |-> to, msg |-> hostMessage(e)]

\* handleWorkerMessage(event): log(event.data, true)
handleWorkerMessage(r, event) == log(r, <<event.data>>, TRUE)

\* handleWorkerError(event): log(content, true)
handleWorkerError(r, event) ==
  log(r, <<[by |-> "handleWorkerError", fault |-> 0, msg |-> event.msg]>>, TRUE)

\* the events this page will see; those sent to the other tab are its to handle
ForThisPage(events) == SelectSeq(events, LAMBDA ev : ev.to = "A")

WorkerInit == PageInit /\ \E host \in Hosts : relay = NoRelay(host)

\* variant: errorFromWorker() makes a new Worker at every call
ErrorFromWorker_AlwaysCreates ==
  /\ Idle
  /\ relay.requests < MaxRequests
  /\ console' = log(Ctx, <<>>, FALSE).console
  /\ relay' = [relay EXCEPT
                 !._worker = TRUE,
                 !.made.Worker = @ + 1,
                 !.made.workerHandlers = @ + 1,
                 !.toWorker = Append(@, [from |-> "A", useTryCatch |-> page._useTryCatch]),
                 !.requests = @ + 1]
  /\ UNCHANGED <<page, timers, microtasks, faults, latest, streak, probe>>

\* errorFromWorker()
ErrorFromWorker ==
  /\ Idle
  /\ relay.requests < MaxRequests
  /\ console' = log(Ctx, <<>>, FALSE).console
  /\ relay' = [relay EXCEPT
                 !._worker = TRUE,
                 !.made.Worker = IF relay._worker THEN @ ELSE @ + 1,
                 !.made.workerHandlers = IF relay._worker THEN @ ELSE @ + 1,
                 !.toWorker = Append(@, [from |-> "A", useTryCatch |-> page._useTryCatch]),
                 !.requests = @ + 1]
  /\ UNCHANGED <<page, timers, microtasks, faults, latest, streak, probe>>

\* errorFromSharedWorker() on this page
ErrorFromSharedWorker ==
  /\ Idle
  /\ relay.requests < MaxRequests
  /\ IF ~SharedWorkerSupported(relay.host)
       THEN /\ console' = log(Ctx, <<[by |-> "errorFromSharedWorker", fault |-> 0,
                                      text |-> <<"SharedWorker", "not", "supported.">>]>>,
                              FALSE).console
            /\ relay' = [relay EXCEPT !.requests = @ + 1]
       ELSE /\ console' = log(Ctx, <<>>, FALSE).console
            /\ relay' = [relay EXCEPT
                           !._sharedWorker = @ \cup {"A"},
                           !.made.SharedWorker = IF "A" \in relay._sharedWorker THEN @ ELSE @ + 1,
                           !.made.sharedHandlers = IF "A" \in relay._sharedWorker THEN @ ELSE @ + 1,
                           !.made.started = IF "A" \in relay._sharedWorker THEN @ ELSE @ + 1,
                           !.toShared =
                              (IF "A" \in relay._sharedWorker
                                 THEN @ ELSE Append(@, [type |-> "connect", from |-> "A"]))
                              \o <<[type |-> "message", from |-> "A",
                                    useTryCatch |-> page._useTryCatch]>>,
                           !.requests = @ + 1]
  /\ UNCHANGED <<page, timers, microtasks, faults, latest, streak, probe>>

\* errorFromSharedWorker() on the second tab, whatever mode that tab is in
OtherTabSharedWorker(flag) ==
  /\ relay.requests < MaxRequests
  /\ SharedWorkerSupported(relay.host)
  /\ relay' = [relay EXCEPT
                 !._sharedWorker = @ \cup {"B"},
                 !.toShared =
                    (IF "B" \in relay._sharedWorker
                       THEN @ ELSE Append(@, [type |-> "connect", from |-> "B"]))
                    \o <<[type |-> "message", from |-> "B", useTryCatch |-> flag]>>,
                 !.requests = @ + 1]
  /\ UNCHANGED <<page, console, timers, microtasks, faults, latest, streak, probe>>

\* variant: the worker looks at the page's flag when it takes the message
WorkerTask_ReadsPageFlag ==
  /\ relay.toWorker # <<>>
  /\ LET s == serve([Head(relay.toWorker) EXCEPT !.useTryCatch = page._useTryCatch],
                    "undefined", "A")
         up == IF s.thrown = "none" THEN <<>> ELSE <<errorEvent("A", s.thrown)>>
     IN relay' = [relay EXCEPT !.toWorker = Tail(@),
                               !.toPage = @ \o ForThisPage(s.events \o up),
                               !.served = s.served]
  /\ UNCHANGED <<page, console, timers, microtasks, faults, latest, streak, probe>>

\* the dedicated worker takes its next message; an error that self.onerror does
\* not cancel is fired at the parent's Worker object
WorkerTask ==
  /\ relay.toWorker # <<>>
  /\ LET s == serve(Head(relay.toWorker), "undefined", "A")
         up == IF s.thrown = "none" THEN <<>> ELSE <<errorEvent("A", s.thrown)>>
     IN relay' = [relay EXCEPT !.toWorker = Tail(@),
                               !.toPage = @ \o ForThisPage(s.events \o up),
                               !.served = s.served]
  /\ UNCHANGED <<page, console, timers, microtasks, faults, latest, streak, probe>>

\* the shared worker takes its next event: the connect listener keeps the port
\* in _port; a message runs self.onmessage as the port's listener
SharedWorkerTask ==
  /\ relay.toShared # <<>>
  /\ LET ev == Head(relay.toShared) IN
     IF ev.type = "connect"
       THEN relay' = [relay EXCEPT !.toShared = Tail(@), !._port = ev.from]
       ELSE LET s == serve(ev, relay._port, "self")
                up == IF s.thrown # "none" /\ SharedErrorEvent(relay.host)
                             /\ "A" \in relay._sharedWorker
                        THEN <<errorEvent("A", s.thrown)>> ELSE <<>>
            IN relay' = [relay EXCEPT !.toShared = Tail(@),
                                      !.toPage = @ \o ForThisPage(s.events \o up),
                                      !.served = s.served]
  /\ UNCHANGED <<page, console, timers, microtasks, faults, latest, streak, probe>>

\* the page takes the next event a worker sent it: a message goes to
\* handleWorkerMessage, an error event to handleWorkerError and then, on the
\* hosts that do so, to window as an error event without an error object:
\* window.onerror and the registered "error" listeners
PageTask ==
  /\ Idle
  /\ relay.toPage # <<>>
  /\ LET ev == Head(relay.toPage)
         r1 == IF ev.type = "message" THEN handleWorkerMessage(Ctx, ev)
                                      ELSE handleWorkerError(Ctx, ev)
         atWindow == ev.type = "error" /\ ParentOnError(relay.host)
         r2 == IF atWindow /\ page.onerror = "handler"
                 THEN windowOnError(r1, 0, ev.msg, "null") ELSE r1
         r3 == IF atWindow THEN dispatchListeners(page.listeners, r2, 0, "null") ELSE r2
     IN /\ console' = r3.console
        /\ relay' = [relay EXCEPT !.toPage = Tail(@),
                                  !.shown = IF ev.type = "message" THEN @ + 1 ELSE @]
  /\ UNCHANGED <<page, timers, microtasks, faults, latest, streak, probe>>

WorkerNext ==
  \/ UseNoErrorHandler
  \/ UseWindowOnError
  \/ UseTryCatch
  \/ ErrorFromWorker
  \/ ErrorFromSharedWorker
  \/ \E flag \in BOOLEAN : OtherTabSharedWorker(flag)
  \/ WorkerTask
  \/ SharedWorkerTask
  \/ PageTask

WorkerSpec == WorkerInit /\ [][WorkerNext]_vars

\* the dedicated worker alone, with the worker and the page taking the events
\* that wait for them
DedicatedNext ==
  \/ UseWindowOnError
  \/ UseTryCatch
  \/ UseWindowAddEventListener
  \/ ErrorFromWorker
  \/ WorkerTask
  \/ PageTask

DedicatedSpec ==
  WorkerInit /\ [][DedicatedNext]_vars /\ WF_vars(WorkerTask) /\ WF_vars(PageTask)

\* ------------------------------------------------- direct calls of the sink
\* log and the handler useWindowOnError installs, called with contents and
\* messages drawn from small sets on whatever the #console element holds.

Text(words) == [by |-> "log", fault |-> 0, text |-> words]

LogContents == {<<>>, <<Text(<<"a">>)>>, <<Text(<<"b">>)>>}

\* an omitted argument is undefined, which is falsy
Truthy(v) == v = "true"

OnErrorMessages ==
  {hostMessage(e) : e \in {"Error", "WorkerError", "string", "null"}}
    \cup {Marker, <<"from">>, <<"worker", "from">>, hostMessage_Sanitized("Error")}

\* log(content) or log(content, append)
CallLog(content, append) ==
  /\ Idle
  /\ LET r == log(Ctx, content, Truthy(append)) IN
       /\ Len(r.console) <= MaxConsole
       /\ console' = r.console
  /\ probe' = [op |-> "log", content |-> content, append |-> append, before |-> console]
  /\ UNCHANGED <<page, timers, microtasks, faults, latest, streak, relay>>

\* the host calls the installed window.onerror(msg, url, line, col, error)
CallWindowOnError(msg, e) ==
  /\ Idle
  /\ page.onerror = "handler"
  /\ LET r == windowOnError(Ctx, 0, msg, e) IN
       /\ Len(r.console) <= MaxConsole
       /\ console' = r.console
  /\ probe' = [op |-> "onerror", msg |-> msg, error |-> e, before |-> console]
  /\ UNCHANGED <<page, timers, microtasks, faults, latest, streak, relay>>

SinkNext ==
  \/ UseNoErrorHandler
  \/ UseWindowOnError
  \/ \E content \in LogContents, append \in {"omitted", "false", "true"} :
       CallLog(content, append)
  \/ \E msg \in OnErrorMessages, e \in {"Error", "null"} : CallWindowOnError(msg, e)

SinkSpec == Init /\ [][SinkNext]_vars

\* ------------------------------------------------------------- properties
P == "PROTECTED_ENTRY_POINTS"

Pristine(p) == p.setTimeout = "native" /\ p.then = "native"

\* one wrapper layer on top of the pristine references
OneLayer(p) ==
  /\ p.setTimeout = "protectedTimeout" /\ p._oldSetTimeout = "native"
  /\ p.then = "protectedThen" /\ p._oldPromiseThen = "native"

\* C1: after activate(A) followed by activate(B), for all modes A and B and
\* whatever came before, the scheduler and the registrar are the pristine
\* references, unless B is PROTECTED_ENTRY_POINTS, and then exactly one wrapper
\* layer sits on the pristine references.
\* Checked on every page an activation B has just produced, whatever calls,
\* activate(A) among them, came before it.
C1_NoLeakedWrappers ==
  latest \in Modes => IF latest = P THEN OneLayer(page) ELSE Pristine(page)

\* C1 witness: protected entry points had been activated (the saved originals
\* are held), a later activation of another mode followed, and the facilities
\* are back to the native references
C1_Witness ==
  /\ latest = "GLOBAL_HANDLER"
  /\ page._oldSetTimeout = "native"
  /\ page._oldPromiseThen = "native"
  /\ page = activate(activate(page, P), "GLOBAL_HANDLER")
  /\ Pristine(page)

Registered(p) == \E i \in 1..Len(p.listeners) : p.listeners[i] = "errorEventListener"

\* C2: in every state, those where a timer callback or a promise job can run
\* included, the installed hooks are exactly those of the mode the indicators
\* show: window.onerror iff GLOBAL_HANDLER, the flag iff TRY_CATCH, both wrappers
\* iff PROTECTED_ENTRY_POINTS, the listener iff EVENT_LISTENER; at most one
\* indicator is active.
C2_HooksOfOneMode ==
  /\ Cardinality(ActiveModes(page)) <= 1
  /\ (page.onerror = "handler") <=> (currentMode(page) = "GLOBAL_HANDLER")
  /\ page._useTryCatch <=> (currentMode(page) = "TRY_CATCH")
  /\ (page.setTimeout = "protectedTimeout") <=> (currentMode(page) = P)
  /\ (page.then = "protectedThen") <=> (currentMode(page) = P)
  /\ Registered(page) <=> (currentMode(page) = "EVENT_LISTENER")

\* C2 witness: a timer scheduled under protected entry points is still pending
\* after the switch to try/catch, so its callback runs in the state checked
C2_Witness ==
  /\ timers # <<>>
  /\ Head(timers).fn.protected
  /\ latest = "TRY_CATCH"
  /\ page._useTryCatch

Fault(f) == faults[f]

Sync(f) == Fault(f).inj.kind = "sync"

\* what msg.indexOf(needle) != -1 is meant to decide: needle occurs in msg
Contains(msg, needle) ==
  \E i \in 1..Len(msg) :
    /\ i + Len(needle) - 1 <= Len(msg)
    /\ \A k \in 1..Len(needle) : msg[i + k - 1] = needle[k]

\* C3: under TRY_CATCH, invoke(faultFn) lets no error escape, whatever a
\* synchronous fault injector throws (an Error, a string, null, undefined):
\* invoke returns normally and the sink receives a report.
C3_TryCatchNeverEscapes ==
  \A f \in DOMAIN faults :
    (Sync(f) /\ Fault(f).mode = "TRY_CATCH")
      => (~Fault(f).escaped /\ Fault(f).reports >= 1)

\* C4: a fault scheduled by throwAsyncError yields exactly one report to the
\* sink when it is scheduled under PROTECTED_ENTRY_POINTS (none before its
\* timer fires, one after, whatever happens in between), and no report when the
\* mode is NONE when it is scheduled and when it fires.
C4_AsyncFaultReports ==
  \A f \in DOMAIN faults :
    Fault(f).inj = throwAsyncError
      => /\ Fault(f).mode = P
              => Fault(f).reports = (IF Fault(f).done THEN 1 ELSE 0)
         /\ (Fault(f).mode = "NONE" /\ Fault(f).done /\ Fault(f).doneMode = "NONE")
              => Fault(f).reports = 0

\* C4 witness: throwAsyncError ran under protected entry points, its timer has
\* fired and the sink got its one report from protectedFn
C4_Witness ==
  \E f \in DOMAIN faults :
    /\ Fault(f).inj = throwAsyncError
    /\ Fault(f).mode = P
    /\ Fault(f).done
    /\ Fault(f).reports = 1
    /\ console = <<[by |-> "protectedFn", fault |-> f, object |-> "Error", stack |-> "stack"]>>

\* C5: under PROTECTED_ENTRY_POINTS every error thrown in a callback registered
\* through the wrapped scheduler or the wrapped registrar, whatever the value
\* thrown, is caught by the wrapper and reported to the sink, and never reaches
\* the host's default unhandled-error path.
C5_ProtectedCallbacksNeverReachHost ==
  \A f \in DOMAIN faults :
    (Fault(f).inj.kind \in {"timer", "promise", "rejectHandler"}
       /\ Fault(f).mode = P /\ Fault(f).done)
      => (Fault(f).reports >= 1 /\ Fault(f).host = 0)

\* C6 as claimed: an unobserved promise rejection (errorFromPromise,
\* errorFromRejectedPromise) delivers no report in NONE, GLOBAL_HANDLER,
\* TRY_CATCH and EVENT_LISTENER and is surfaced as a report in
\* PROTECTED_ENTRY_POINTS.
C6_Claimed ==
  \A f \in DOMAIN faults :
    (Fault(f).inj \in {errorFromPromise, errorFromRejectedPromise} /\ Fault(f).done)
      => IF Fault(f).mode = P THEN Fault(f).reports >= 1 ELSE Fault(f).reports = 0

\* C6 as amended: neither injector delivers a report in NONE, GLOBAL_HANDLER,
\* TRY_CATCH or EVENT_LISTENER.  Under PROTECTED_ENTRY_POINTS the error thrown
\* inside a continuation (errorFromPromise) is reported once by the wrapper and
\* does not reach the host, while the promise that is already rejected and has
\* no rejection handler (errorFromRejectedPromise) delivers no report either:
\* it goes to the host's unhandled-rejection path in every mode.
C6_UnobservedRejections ==
  \A f \in DOMAIN faults :
    Fault(f).done =>
      /\ (Fault(f).inj = errorFromPromise /\ Fault(f).mode = P)
           => (Fault(f).reports = 1 /\ Fault(f).host = 0)
      /\ (Fault(f).inj = errorFromPromise /\ Fault(f).mode # P)
           => (Fault(f).reports = 0 /\ Fault(f).host = 1)
      /\ Fault(f).inj = errorFromRejectedPromise
           => (Fault(f).reports = 0 /\ Fault(f).host = 1)

\* C6 witness: errorFromRejectedPromise ran under protected entry points, its
\* chain has settled, and nothing was reported
C6_Witness ==
  \E f \in DOMAIN faults :
    /\ Fault(f).inj = errorFromRejectedPromise
    /\ Fault(f).mode = P
    /\ Fault(f).wrapped
    /\ Fault(f).done
    /\ Fault(f).reports = 0
    /\ Fault(f).host = 1

C8_NoneAlwaysEscapes ==
  \A f \in DOMAIN faults :
    (Sync(f) /\ Fault(f).mode = "NONE")
      => (Fault(f).escaped /\ Fault(f).host = 1 /\ Fault(f).reports = 0)

\* C8 witness: throwString invoked after useNoErrorHandler escaped
C8_Witness ==
  \E f \in DOMAIN faults :
    /\ Fault(f).inj = throwString
    /\ Fault(f).mode = "NONE"
    /\ latest = "NONE"
    /\ Fault(f).escaped
    /\ console = <<>>

\* C9: after n >= 2 consecutive activate(PROTECTED_ENTRY_POINTS) calls there is
\* one saved-original pair and one wrapper layer: the saved scheduler and the
\* saved registrar are the pristine references, never a wrapper, and a throwing
\* callback scheduled afterwards is protected once and yields exactly one report.
C9_NoDoubleWrapping ==
  /\ (latest = P /\ streak >= 2) => OneLayer(page)
  /\ \A i \in 1..Len(timers) :
       Fault(timers[i].fault).after >= 2 => timers[i].fn.protected
  /\ \A f \in DOMAIN faults :
       (Fault(f).after >= 2 /\ Fault(f).inj.kind = "timer" /\ Fault(f).inj.thrown = "Error")
         => /\ ~Fault(f).escaped
            /\ Fault(f).reports = (IF Fault(f).done THEN 1 ELSE 0)
            /\ Fault(f).host = 0

\* C9 witness: throwAsyncError scheduled right after the second of two
\* consecutive activations has fired and was reported once
C9_Witness ==
  \E f \in DOMAIN faults :
    /\ Fault(f).after >= 2
    /\ Fault(f).inj = throwAsyncError
    /\ Fault(f).done
    /\ Fault(f).reports = 1
    /\ latest = P
    /\ streak >= 2
    /\ OneLayer(page)

\* C10: reset() is idempotent: from every reachable state, reset(); reset()
\* leaves the globals (handler, listeners, flag, scheduler, registrar, saved
\* originals, indicators) as a single reset() does, and that state has no
\* handler, no listener, the flag false and both facilities pristine; a state
\* a reset() has just produced is therefore not changed by another one.
C10_ResetIdempotent ==
  LET q == resetErrorHandlers(page) IN
  /\ resetErrorHandlers(q) = q
  /\ q.onerror = "undefined"
  /\ q.listeners = <<>>
  /\ ~q._useTryCatch
  /\ Pristine(q)
  /\ ActiveModes(q) = {}
  /\ q._oldSetTimeout = page._oldSetTimeout
  /\ q._oldPromiseThen = page._oldPromiseThen
  /\ latest = "reset" => q = page

\* C10 witness: two resets in a row after protected entry points had been
\* active, with the saved originals still held
C10_Witness ==
  /\ latest = "reset"
  /\ streak >= 2
  /\ page._oldSetTimeout = "native"
  /\ page._oldPromiseThen = "native"
  /\ Pristine(page)

\* C11: each wrapped facility forwards every argument other than the callback
\* unchanged: the original scheduler receives protect(callback), the same delay
\* and the same further arguments; the original registrar receives both
\* callbacks, each protected, with the same receiver.
C11_ForwardsAllArguments ==
  /\ (probe.op = "setTimeout" /\ probe.wrapped)
       => probe.received = [fn |-> protectEntryPoint(probe.given.fn),
                            time |-> probe.given.time,
                            extra |-> probe.given.extra]
  /\ (probe.op = "then" /\ probe.wrapped)
       => probe.received = [this |-> probe.given.this,
                            onFulfilled |-> protectEntryPoint(probe.given.callback),
                            onRejected |-> protectEntryPoint(probe.given.errorHandler)]

\* C13: the function protect(fn) returns calls fn exactly once with the same
\* receiver and arguments; when fn returns, the wrapper returns fn's result and
\* writes nothing to the sink; when fn raises, the wrapper forwards exactly one
\* report built from the error to the sink and lets no error propagate.
C13_ProtectedFnContract ==
  probe.op = "protectedFn" =>
    /\ probe.calls = <<[this |-> probe.given.this, args |-> probe.given.args]>>
    /\ probe.given.fn.body = "returns"
         => (probe.result = "result" /\ probe.thrown = "none" /\ probe.written = <<>>)
    /\ probe.given.fn.body = "throws"
         => /\ probe.thrown = "none"
            /\ Len(probe.written) = 1
            /\ probe.written[1].object = probe.given.fn.thrown

\* C12: protect creates no wrapper for an absent callback: protect(undefined)
\* is undefined, so a then() call made under PROTECTED_ENTRY_POINTS without a
\* rejection handler hands an absent rejection handler to the original
\* registrar, and a rejection flowing through that link produces no report.
C12_AbsentHandlerStaysAbsent ==
  /\ protectEntryPoint(Absent) = Absent
  /\ \A i \in DOMAIN microtasks :
       (Fault(microtasks[i].fault).inj.kind \in {"promise", "rejected"}
          /\ Fault(microtasks[i].fault).wrapped)
         => \A k \in DOMAIN microtasks[i].links :
              microtasks[i].links[k].onRejected = Absent
  /\ \A f \in DOMAIN faults :
       (Fault(f).inj.kind = "rejected" /\ Fault(f).wrapped)
         => Fault(f).reports = 0

\* C12 witness: Promise.reject(e).then(f) was called under protected entry
\* points and its job is pending: the link holds the protected f and no
\* rejection handler
C12_Witness ==
  /\ microtasks # <<>>
  /\ Head(microtasks).state = "rejected"
  /\ Fault(Head(microtasks).fault).inj = errorFromRejectedPromise
  /\ Fault(Head(microtasks).fault).wrapped
  /\ Head(Head(microtasks).links).onFulfilled = protectEntryPoint(Returns)
  /\ Head(Head(microtasks).links).onRejected = Absent

\* C14: under GLOBAL_HANDLER a synchronous fault that throws an Error with
\* message m escapes invoke, is dispatched by the host to window.onerror, and
\* results in exactly one report in the sink, whose message contains m.
C14_GlobalHandlerReportsMessage ==
  \A f \in DOMAIN faults :
    (Fault(f).inj = throwError /\ Fault(f).mode = "GLOBAL_HANDLER")
      => /\ Fault(f).escaped
         /\ Fault(f).host = 1
         /\ Fault(f).reports = 1
         /\ \A i \in DOMAIN console :
              console[i].fault = f
                => /\ console[i].by = "window.onerror"
                   /\ Contains(console[i].msg, <<"Some", "error", "message">>)
         /\ Len(faults) = 1 => (Len(console) = 1 /\ console[1].fault = f)

\* C14 witness: throwError ran under the global handler and the sink shows its
\* one report, made by window.onerror from the host's message
C14_Witness ==
  /\ Len(faults) = 1
  /\ Fault(1).inj = throwError
  /\ Fault(1).mode = "GLOBAL_HANDLER"
  /\ Fault(1).escaped
  /\ console = <<[by |-> "window.onerror", fault |-> 1, object |-> "Error",
                  msg |-> <<"Uncaught", "Error:", "Some", "error", "message">>,
                  stack |-> "stack"]>>

\* C15: under TRY_CATCH a thrown plain string gives exactly one report, which
\* carries the string and has no stack value, whereas a thrown Error object
\* gives a report whose stack is present.
C15_StringHasNoStack ==
  \A f \in DOMAIN faults :
    (Sync(f) /\ Fault(f).mode = "TRY_CATCH" /\ Fault(f).inj.thrown \in {"string", "Error"})
      => /\ Fault(f).reports = 1
         /\ ~Fault(f).escaped
         /\ \A i \in DOMAIN console :
              console[i].fault = f
                => console[i] = [by |-> "catchError", fault |-> f,
                                 object |-> Fault(f).inj.thrown,
                                 stack |-> IF Fault(f).inj = throwString
                                             THEN "undefined" ELSE "stack"]
         /\ Len(faults) = 1 => (Len(console) = 1 /\ console[1].fault = f)

\* C15 witness: throwString ran under try/catch and the sink shows the report
\* of the string, without a stack
C15_Witness ==
  /\ Len(faults) = 1
  /\ Fault(1).inj = throwString
  /\ Fault(1).mode = "TRY_CATCH"
  /\ console = <<[by |-> "catchError", fault |-> 1, object |-> "string",
                  stack |-> "undefined"]>>

\* C20: a fault thrown from a callback scheduled through window.setTimeout is
\* not captured by try/catch: under TRY_CATCH and under NONE,
\* invoke(throwAsyncError) returns normally, nothing is reported before the
\* timer fires, and the error is raised later outside the protected scope; such
\* a fault is reported only when the scheduler was wrapped when it was scheduled
\* or when window.onerror or the listener is installed when it fires.
C20_AsyncEscapesTryCatch ==
  \A f \in DOMAIN faults :
    Fault(f).inj = throwAsyncError =>
      /\ Fault(f).mode \in {"TRY_CATCH", "NONE"}
           => /\ ~Fault(f).escaped
              /\ ~Fault(f).wrapped
              /\ ~Fault(f).done => (Fault(f).reports = 0 /\ Fault(f).host = 0)
              /\ Fault(f).done
                   => /\ Fault(f).host = 1
                      /\ Fault(f).doneMode \in {"TRY_CATCH", "NONE", P}
                           => Fault(f).reports = 0
      /\ Fault(f).reports >= 1
           => \/ Fault(f).wrapped
              \/ Fault(f).done /\ Fault(f).doneMode \in {"GLOBAL_HANDLER", "EVENT_LISTENER"}

\* C20 witness: throwAsyncError was invoked under try/catch, its timer has
\* fired under try/catch, the error went to the host and the sink stayed empty
C20_Witness ==
  \E f \in DOMAIN faults :
    /\ Fault(f).inj = throwAsyncError
    /\ Fault(f).mode = "TRY_CATCH"
    /\ Fault(f).done
    /\ Fault(f).doneMode = "TRY_CATCH"
    /\ Fault(f).host = 1
    /\ Fault(f).reports = 0
    /\ console = <<>>

\* C16: for every request the worker receives: with useTryCatch true the
\* message handler catches its own fault, posts exactly one reply (message plus
\* stack) and self.onerror is not invoked for the request; with the flag false
\* the handler posts nothing and the error propagates to self.onerror.
C16_WorkerHonoursFlag ==
  relay.served.from # "none" =>
    IF relay.served.useTryCatch
      THEN relay.served.posted = <<Reply>> /\ relay.served.onerror = 0
      ELSE relay.served.posted = <<>> /\ relay.served.onerror = 1

\* C16 witness: the dedicated worker served a request with the flag set, and
\* the page has shown the one reply
C16_Witness ==
  /\ relay.served.from = "A"
  /\ relay.served.useTryCatch
  /\ relay.served.posted = <<Reply>>
  /\ relay.toWorker = <<>> /\ relay.toShared = <<>> /\ relay.toPage = <<>>
  /\ relay._sharedWorker = {}
  /\ console = <<Reply>>

\* C17: every reply the worker posts is delivered to the party that sent the
\* request it answers: the creating page for a dedicated worker, the port the
\* request arrived on for a shared worker with any number of connected pages,
\* for every interleaving of connects and requests.
C17_RepliesReturnToSender ==
  relay.served.from # "none" => relay.served.to = relay.served.from

\* C18: the sink obeys replace/append semantics for every sequence of calls:
\* after log(c) or log(c, false) the displayed content is c, and after
\* log(c, true) it is the previous content followed by c.
C18_LogReplacesOrAppends ==
  probe.op = "log" =>
    console = (IF probe.append = "true" THEN probe.before \o probe.content
                                       ELSE probe.content)

\* C18 witness: log(c, true) was called on a sink that showed something, and
\* the sink shows both
C18_Witness ==
  /\ probe.op = "log"
  /\ probe.append = "true"
  /\ probe.before = <<Text(<<"a">>)>>
  /\ probe.content = <<Text(<<"b">>)>>
  /\ console = <<Text(<<"a">>), Text(<<"b">>)>>

\* C19: the handler installed by GLOBAL_HANDLER appends its report to the sink
\* if and only if the message contains the marker 'from worker'; for every
\* other message it replaces the content, so a page-origin report is
\* overwritten by the next page-origin report.
C19_AppendsIffWorkerMarker ==
  probe.op = "onerror" =>
    LET rec == [by |-> "window.onerror", fault |-> 0, object |-> probe.error,
                msg |-> probe.msg,
                stack |-> IF probe.error = "Error" THEN "stack" ELSE "false"]
    IN IF Contains(probe.msg, <<"from", "worker">>)
         THEN console = Append(probe.before, rec)
         ELSE console = <<rec>>

\* C19 witness: the sink showed a page-origin report when window.onerror got
\* the worker's message; the sink shows both
C19_Witness ==
  /\ probe.op = "onerror"
  /\ probe.msg = <<"Uncaught", "Error:", "Error", "from", "worker">>
  /\ Len(probe.before) = 1
  /\ probe.before[1].by = "window.onerror"
  /\ probe.before[1].msg = <<"Uncaught", "Error:", "Some", "error", "message">>
  /\ Len(console) = 2
  /\ console[2].msg = probe.msg

\* the timers pending for fault f
PendingTimers(f) == {i \in DOMAIN timers : timers[i].fault = f}

Scheduled(f) ==
  f \in DOMAIN faults /\ Fault(f).inj = throwAsyncError /\ ~Fault(f).escaped

\* C21: no mode change cancels a scheduled fault: once throwAsyncError has
\* scheduled its callback, whatever reset and activate calls are made before
\* the timer fires, the callback is eventually invoked (the host firing due
\* timers), and exactly once: one timer is pending until it has run, none after.
C21_ScheduledFaultRuns ==
  /\ [](\A f \in DOMAIN faults :
          Scheduled(f) =>
            /\ Cardinality(PendingTimers(f)) = (IF Fault(f).done THEN 0 ELSE 1)
            /\ Fault(f).done => Fault(f).host + Fault(f).reports >= 1)
  /\ \A f \in 1..(MaxFaults + 1) : Scheduled(f) ~> (Scheduled(f) /\ Fault(f).done)

\* C21 witness: the callback scheduled under one mode has run after the page
\* went through reset
C21_Witness ==
  \E f \in DOMAIN faults :
    /\ Scheduled(f)
    /\ Fault(f).mode = P
    /\ Fault(f).done
    /\ Fault(f).doneMode = "NONE"
    /\ latest = "reset"
    /\ PendingTimers(f) = {}

\* the error-event listeners registered on window
ErrorListeners(p) == SelectSeq(p.listeners, LAMBDA l : l = "errorEventListener")

\* C22: after any sequence of activations at most one error-event listener is
\* registered on window, and it is registered exactly when the current mode is
\* EVENT_LISTENER (repeated activation does not accumulate listeners, leaving
\* the mode removes it); each error event dispatched in that mode therefore
\* forwards exactly one report to the sink.
C22_OneListener ==
  /\ Len(page.listeners) = Len(ErrorListeners(page))
  /\ Len(ErrorListeners(page)) = (IF currentMode(page) = "EVENT_LISTENER" THEN 1 ELSE 0)
  /\ \A f \in DOMAIN faults :
       (Fault(f).inj.kind \in {"sync", "timer"} /\ Fault(f).done
          /\ Fault(f).doneMode = "EVENT_LISTENER" /\ Fault(f).host >= 1)
         => (Fault(f).host = 1 /\ Fault(f).reports = 1)

\* C22 witness: the listener mode was activated twice in a row, an error event
\* was dispatched, and the sink shows the listener's one report
C22_Witness ==
  /\ latest = "EVENT_LISTENER"
  /\ streak = 2
  /\ page.listeners = <<"errorEventListener">>
  /\ Len(faults) = 1
  /\ Fault(1).inj = throwError
  /\ Fault(1).host = 1
  /\ Fault(1).reports = 1
  /\ console = <<[by |-> "errorEventListener", fault |-> 1, object |-> "Error",
                  stack |-> "stack"]>>

\* C23: in every mode other than TRY_CATCH invoke(faultFn) calls faultFn with
\* no protected scope, so a synchronous error propagates out of invoke to its
\* caller; under PROTECTED_ENTRY_POINTS such a fault, which goes through
\* neither the wrapped scheduler nor the wrapped registrar, is observed by no
\* installed mechanism and produces no report in the sink.
C23_SyncFaultPropagates ==
  \A f \in DOMAIN faults :
    (Sync(f) /\ Fault(f).mode # "TRY_CATCH")
      => /\ Fault(f).escaped
         /\ Fault(f).host = 1
         /\ Fault(f).mode = P
              => /\ Fault(f).reports = 0
                 /\ \A i \in DOMAIN console : console[i].fault # f

\* C23 witness: throwError ran under protected entry points, left invokeError
\* and went to the host; the sink is empty
C23_Witness ==
  /\ Len(faults) = 1
  /\ Fault(1).inj = throwError
  /\ Fault(1).mode = P
  /\ OneLayer(page)
  /\ Fault(1).escaped
  /\ Fault(1).host = 1
  /\ Fault(1).reports = 0
  /\ console = <<>>

\* the worker messages among the events in flight to the page
Messages(q) == SelectSeq(q, LAMBDA ev : ev.type = "message")

\* C24: every request the page posts to the dedicated worker eventually results
\* in exactly one reply message (the caught message-plus-stack string when
\* useTryCatch is true, the self.onerror diagnostic when it is false), replies
\* arrive in the order of the requests, and each reply is appended to the sink
\* by handleWorkerMessage.
C24_EveryRequestAnswered ==
  /\ [][(relay.toWorker # <<>> /\ relay'.toWorker = Tail(relay.toWorker))
          => Messages(relay'.toPage) =
               Append(Messages(relay.toPage),
                      [type |-> "message", to |-> "A",
                       data |-> IF Head(relay.toWorker).useTryCatch
                                  THEN Reply
                                  ELSE Diagnostic(hostMessage("WorkerError"))])]_vars
  /\ [][(relay.toPage # <<>> /\ relay'.toPage = Tail(relay.toPage)
           /\ Head(relay.toPage).type = "message")
          => (console' = Append(console, Head(relay.toPage).data)
              /\ relay'.shown = relay.shown + 1)]_vars
  /\ [](relay.shown + Len(Messages(relay.toPage)) + Len(relay.toWorker) = relay.requests)
  /\ \A n \in 1..MaxRequests : (relay.requests >= n) ~> (relay.shown >= n)

\* C24 witness: two requests, the first posted with the flag set and the second
\* without it, have both been answered, and the sink shows the two replies in
\* that order
C24_Witness ==
  /\ relay.requests = 2
  /\ relay.shown = 2
  /\ relay.toWorker = <<>>
  /\ Len(console) >= 2
  /\ console[1] = Reply
  /\ console[2] = Diagnostic(hostMessage("WorkerError"))

\* C25: after errorFromWorker has cleared the sink, all sources of reports for
\* that worker fault are shown together: in every capture mode and for every
\* delivery order, once delivered, the worker's own relayed report and the
\* parent's worker.onerror report are in the sink next to any page-level
\* report for the fault, none of them overwriting another.
C25_AllWorkerReportsShown ==
  (/\ relay.requests = 1
   /\ relay.served.from = "A"
   /\ ~relay.served.useTryCatch
   /\ relay.toWorker = <<>>
   /\ relay.toPage = <<>>)
    => /\ \E i \in DOMAIN console : console[i].by = "self.onerror"
       /\ \E i \in DOMAIN console : console[i].by = "handleWorkerError"

\* C26: whether a timer-scheduled fault is captured by the protected entry
\* point is fixed when it is scheduled, not when it fires: the callback
\* throwAsyncError schedules under PROTECTED_ENTRY_POINTS is caught and yields
\* exactly one report whatever mode the page is in when it fires, and one
\* scheduled while the scheduler is unwrapped is caught by no wrapper even if
\* PROTECTED_ENTRY_POINTS is activated before it fires.
C26_CaptureFixedAtScheduling ==
  \A f \in DOMAIN faults :
    (Fault(f).inj = throwAsyncError /\ Fault(f).done) =>
      /\ Fault(f).wrapped <=> (Fault(f).mode = P)
      /\ Fault(f).wrapped
           => /\ Fault(f).reports = 1
              /\ Fault(f).host = 0
              /\ \A i \in DOMAIN console :
                   console[i].fault = f => console[i].by = "protectedFn"
      /\ ~Fault(f).wrapped
           => /\ Fault(f).host = 1
              /\ \A i \in DOMAIN console :
                   console[i].fault = f => console[i].by # "protectedFn"
              /\ Fault(f).doneMode = P => Fault(f).reports = 0

\* C26 witness: throwAsyncError scheduled its callback with no mode active,
\* protected entry points were activated before the timer fired, and the error
\* went to the host with nothing reported
C26_Witness ==
  \E f \in DOMAIN faults :
    /\ Fault(f).inj = throwAsyncError
    /\ Fault(f).mode = "NONE"
    /\ ~Fault(f).wrapped
    /\ Fault(f).done
    /\ Fault(f).doneMode = P
    /\ OneLayer(page)
    /\ Fault(f).host = 1
    /\ Fault(f).reports = 0

\* C27: under PROTECTED_ENTRY_POINTS, when a continuation registered through
\* the wrapped registrar throws, the wrapper reports the error and returns
\* undefined, so the promise then() returned is fulfilled instead of rejected:
\* no rejection is passed down the chain and no unhandled rejection is raised.
C27_WrappedContinuationFulfils ==
  /\ \A f \in DOMAIN faults :
       (Fault(f).inj.kind \in {"promise", "rejectHandler"} /\ Fault(f).wrapped
          /\ Fault(f).done)
         => (Fault(f).reports = 1 /\ Fault(f).host = 0)
  /\ \A i \in DOMAIN microtasks :
       (Fault(microtasks[i].fault).inj.kind = "promise"
          /\ Fault(microtasks[i].fault).wrapped)
         => microtasks[i].state = "fulfilled"

Last(q) == q[Len(q)]

\* C28: the useTryCatch flag of a worker request is the page's flag at the
\* moment errorFromWorker or errorFromSharedWorker posts it; a mode change made
\* after that and before the worker handles the request does not change how
\* the worker handles it, and the worker never reads the page's mode.
C28_FlagFixedWhenPosted ==
  /\ [][Len(relay'.toWorker) = Len(relay.toWorker) + 1
          => Last(relay'.toWorker).useTryCatch = page._useTryCatch]_vars
  /\ [][(Len(relay'.toShared) > Len(relay.toShared) /\ Last(relay'.toShared).from = "A")
          => Last(relay'.toShared).useTryCatch = page._useTryCatch]_vars
  /\ [][page' # page
          => (relay'.toWorker = relay.toWorker /\ relay'.toShared = relay.toShared
              /\ relay'.toPage = relay.toPage /\ relay'.served = relay.served)]_vars
  /\ [][(relay.toWorker # <<>> /\ relay'.toWorker = Tail(relay.toWorker))
          => /\ relay'.served.useTryCatch = Head(relay.toWorker).useTryCatch
             /\ relay'.served.posted =
                  (IF Head(relay.toWorker).useTryCatch THEN <<Reply>> ELSE <<>>)]_vars
  /\ [][(relay.toShared # <<>> /\ relay'.toShared = Tail(relay.toShared)
           /\ Head(relay.toShared).type = "message")
          => /\ relay'.served.useTryCatch = Head(relay.toShared).useTryCatch
             /\ relay'.served.posted =
                  (IF Head(relay.toShared).useTryCatch THEN <<Reply>> ELSE <<>>)]_vars

\* C28 witness: the one request was posted under try/catch, the page is in the
\* window.onerror mode, with the flag off, and the worker has caught the error
\* as the request told it to
C28_Witness ==
  /\ relay.requests = 1
  /\ relay.served.from = "A"
  /\ relay.served.useTryCatch
  /\ relay.served.posted = <<Reply>>
  /\ ~page._useTryCatch
  /\ page.onerror = "handler"

\* the requests waiting for the workers
Waiting(r) == Len(r.toWorker) + Len(Messages(r.toShared))

\* C29: across any number of errorFromWorker and errorFromSharedWorker calls at
\* most one dedicated worker and at most one shared worker are created, each
\* gets its error and message handlers attached exactly once (the shared
\* worker's port is started once, before the first request is posted), every
\* call posts exactly one request, and when SharedWorker is unsupported no
\* shared worker is created and no request is posted to one.
C29_WorkersCreatedOnce ==
  /\ [](/\ relay.made.Worker = (IF relay._worker THEN 1 ELSE 0)
        /\ relay.made.workerHandlers = relay.made.Worker
        /\ relay.made.SharedWorker = (IF "A" \in relay._sharedWorker THEN 1 ELSE 0)
        /\ relay.made.sharedHandlers = relay.made.SharedWorker
        /\ relay.made.started = relay.made.SharedWorker
        /\ \A i \in DOMAIN relay.toShared :
             relay.toShared[i].from = "A" => relay.made.started = 1
        /\ ~SharedWorkerSupported(relay.host)
             => (relay.made.SharedWorker = 0 /\ relay.toShared = <<>>
                 /\ relay._sharedWorker = {}))
  /\ [][relay'.requests = relay.requests + 1
          => \/ Waiting(relay') = Waiting(relay) + 1
             \/ /\ ~SharedWorkerSupported(relay.host)
                /\ Waiting(relay') = Waiting(relay)
                /\ relay'.made = relay.made
                /\ Len(console') = 1
                /\ console'[1].by = "errorFromSharedWorker"]_vars

\* C29 witness: this page has made three calls, to both kinds of worker, and
\* holds one Worker and one SharedWorker with their handlers attached once
C29_Witness ==
  /\ relay.requests = 3
  /\ "B" \notin relay._sharedWorker
  /\ relay.made = [Worker |-> 1, workerHandlers |-> 1,
                   SharedWorker |-> 1, sharedHandlers |-> 1, started |-> 1]

\* C30: reset writes to the scheduler and to the registrar only if
\* PROTECTED_ENTRY_POINTS has been activated before: until then reset leaves
\* both untouched; after it the saved originals are never cleared, so every
\* later reset, from any mode, assigns the saved originals to both facilities,
\* whatever they hold at that moment.
C30_ResetRestoresSaved ==
  /\ [](/\ (page._oldSetTimeout = "undefined") <=> (page._oldPromiseThen = "undefined")
        /\ page._oldSetTimeout = "undefined" => (Pristine(page) /\ latest # P)
        /\ resetErrorHandlers(page).setTimeout =
             (IF page._oldSetTimeout = "undefined" THEN page.setTimeout
                                                  ELSE page._oldSetTimeout)
        /\ resetErrorHandlers(page).then =
             (IF page._oldPromiseThen = "undefined" THEN page.then
                                                   ELSE page._oldPromiseThen))
  /\ [][page._oldSetTimeout # "undefined"
          => (page'._oldSetTimeout # "undefined" /\ page'._oldPromiseThen # "undefined")]_vars
  /\ [][latest' = P => page'._oldSetTimeout # "undefined"]_vars
  /\ [][(latest' = "reset" /\ <<latest, streak>>' # <<latest, streak>>)
          => /\ page'.setTimeout =
                  (IF page._oldSetTimeout = "undefined" THEN page.setTimeout
                                                       ELSE page._oldSetTimeout)
             /\ page'.then =
                  (IF page._oldPromiseThen = "undefined" THEN page.then
                                                        ELSE page._oldPromiseThen)
             /\ page'._oldSetTimeout = page._oldSetTimeout
             /\ page'._oldPromiseThen = page._oldPromiseThen]_vars

\* C30 witness: reset was called while the wrappers of protected entry points
\* were installed: both facilities hold the saved originals again, which are
\* still saved
C30_Witness ==
  /\ latest = "reset"
  /\ streak = 1
  /\ page.setTimeout = "native"
  /\ page.then = "native"
  /\ page._oldSetTimeout = "native"
  /\ page._oldPromiseThen = "native"
  /\ currentMode(page) = "NONE"
  /\ \E f \in DOMAIN faults : Fault(f).mode = P /\ ~Fault(f).done

====
